---- MODULE Spec2Model ----
(***************************************************************************)
(* The graph query engine of irs_forms_network: NetworkBuilder            *)
(* (constructor, searchNodes, filterByAttributes, expandFromSeeds,        *)
(* buildNetwork, selectTopNodesByDegree).                                  *)
(*                                                                         *)
(* The repository holds two revisions of the class:                        *)
(*   _ts : src/src/services/networkBuilder.ts                              *)
(*   _p0 : the copy of src/services/networkBuilder.ts in                   *)
(*         src/unnamed/part_000 (lines 384-972)                            *)
(* Definitions shared by both revisions carry no suffix; where the two     *)
(* revisions differ there is one definition per revision.                  *)
(*                                                                         *)
(* JavaScript strings are sequences of one-character strings, so that      *)
(* toLowerCase, trim and includes are computed and not assumed.            *)
(* A JavaScript Set of node ids is a TLA+ set; where the code depends on   *)
(* iteration order (ranking) the order is the order of allNodes, which is  *)
(* the order in which the code fills those Sets.                           *)
(***************************************************************************)
EXTENDS Integers, Sequences, FiniteSets, TLC

VARIABLES
    allNodes,      \* NetworkBuilder.allNodes: sequence of node records (shared objects)
    allLinks,      \* NetworkBuilder.allLinks: sequence of link records
    adjacencyMap,  \* NetworkBuilder.adjacencyMap: id -> sequence of [neighborId, edgeType]
    pc,            \* "idle" | "returned" | "repeated" (buildNetwork) | "expanding" |
                   \* "expanded" | "filtered" | "searched"
    rev,           \* revision of the class that ran the last call: "ts" | "p0"
    query,         \* arguments of the last call
    result,        \* value returned by the last buildNetwork call
    locals,        \* buildNetwork's local variables at its return
    xp,            \* expandFromSeeds: its arguments and loop variables
    fl,            \* filterByAttributes: its arguments and returned set
    sr,            \* searchNodes: its arguments and returned set
    previous,      \* value returned by the buildNetwork call before a repeated call
    api,           \* api.ts: cachedGraph, the fetches issued, the callers in flight
    app            \* App.tsx: the loads in flight and the builder not yet rendered

vars == <<allNodes, allLinks, adjacencyMap, pc, rev, query, result, locals, xp, fl, sr,
          previous, api, app>>

-----------------------------------------------------------------------------
(* Bounds of the model *)

MaxEdges == 2
MaxDepth == 1
MaxTotal == 2
MaxHops == 2
MaxNeighbors == 2

(* maxNodesPerExpansion as the application passes it *)
AppMaxNodesPerExpansion == 100

-----------------------------------------------------------------------------
(* JavaScript values *)

\* undefined, where the code expects an atom (category) and where it expects a string
Undefined == "undefined"
UndefinedText == <<"undefined">>

NodeTypes == {"form", "line", "index", "regulation"}
Categories == {"individual", "corporation"}
EdgeTypes == {"cites_section", "belongs_to"}

\* String.prototype.toLowerCase on one character
LowerChar(c) ==
    CASE c = "A" -> "a"
      [] c = "B" -> "b"
      [] c = "C" -> "c"
      [] c = "D" -> "d"
      [] OTHER -> c

\* String.prototype.toLowerCase
toLowerCase(s) == [i \in 1..Len(s) |-> LowerChar(s[i])]

RECURSIVE trimStart(_)
trimStart(s) ==
    IF s # <<>> /\ Head(s) = " " THEN trimStart(Tail(s)) ELSE s

RECURSIVE trimEnd(_)
trimEnd(s) ==
    IF s # <<>> /\ s[Len(s)] = " " THEN trimEnd(SubSeq(s, 1, Len(s) - 1)) ELSE s

\* String.prototype.trim
trim(s) == trimEnd(trimStart(s))

\* String.prototype.includes: needle occurs as a contiguous substring
includes(hay, needle) ==
    \E i \in 1..(Len(hay) - Len(needle) + 1) :
        SubSeq(hay, i, i + Len(needle) - 1) = needle

\* the elements of a sequence
Range(s) == {s[i] : i \in 1..Len(s)}

\* Array.prototype.filter / Array.prototype.slice(0, n) for n >= 0
RECURSIVE FilterSeq(_, _)
FilterSeq(s, keep) ==
    IF s = <<>> THEN <<>>
    ELSE IF Head(s) \in keep THEN <<Head(s)>> \o FilterSeq(Tail(s), keep)
         ELSE FilterSeq(Tail(s), keep)

slice0(s, n) == SubSeq(s, 1, IF n < Len(s) THEN n ELSE Len(s))

-----------------------------------------------------------------------------
(* The base graph *)

Node(id, name, type, cat, fullName) ==
    [id |-> id, name |-> name, node_type |-> type, category |-> cat,
     full_name |-> fullName, val |-> 0]

Link(s, t, e) == [source |-> s, target |-> t, edge_type |-> e]

\* the node table of the explored graphs: an index node, two forms of
\* different categories, a regulation
BaseNodes ==
    << Node("A", <<"A">>, "index", Undefined, UndefinedText),
       Node("B", <<"B", "a">>, "form", "individual", <<"a", "x">>),
       Node("C", <<"C">>, "form", "corporation", UndefinedText),
       Node("D", <<"D">>, "regulation", Undefined, <<"A", "c">>) >>

\* the links a base graph draws from, in file order: a star around A, a
\* second link between A and B with another label and direction, a chain to
\* D, a self-loop and a link whose target is no node
LinkPool ==
    << Link("A", "B", "cites_section"),
       Link("A", "C", "cites_section"),
       Link("B", "A", "belongs_to"),
       Link("C", "D", "belongs_to"),
       Link("D", "D", "cites_section"),
       Link("C", "X", "cites_section") >>

\* the sub-sequences of s with at most n elements
RECURSIVE SubSeqs(_, _)
SubSeqs(s, n) ==
    IF s = <<>> \/ n = 0 THEN {<<>>}
    ELSE SubSeqs(Tail(s), n)
         \cup {<<Head(s)>> \o r : r \in SubSeqs(Tail(s), n - 1)}

LinkLists == SubSeqs(LinkPool, MaxEdges)

NodeIds(nodes) == {nodes[i].id : i \in 1..Len(nodes)}

\* this.allNodes.find(n => n.id === id)
NodeOf(nodes, id) == nodes[CHOOSE i \in 1..Len(nodes) : nodes[i].id = id]

-----------------------------------------------------------------------------
(* api.ts loadGraph: the node objects handed to the constructor *)

\* degreeMap of loadGraph: how often id is the source or the target of a link
RECURSIVE rawDegree(_, _)
rawDegree(links, id) ==
    IF links = <<>> THEN 0
    ELSE (IF Head(links).source = id THEN 1 ELSE 0)
         + (IF Head(links).target = id THEN 1 ELSE 0)
         + rawDegree(Tail(links), id)

\* raw.nodes.map(...): val: degreeMap.get(n.id) || 0
loadGraphNodes(rawNodes, links) ==
    [i \in 1..Len(rawNodes) |->
        [rawNodes[i] EXCEPT !.val = rawDegree(links, rawNodes[i].id)]]

-----------------------------------------------------------------------------
(* NetworkBuilder.constructor: the adjacency map *)

EmptyMap == [x \in {} |-> <<>>]

\* a constructor that records a link at its source only
RECURSIVE buildAdjacencyMapOneWay(_, _)
buildAdjacencyMapOneWay(links, m) ==
    IF links = <<>> THEN m
    ELSE LET l  == Head(links)
             m1 == IF l.source \in DOMAIN m THEN m ELSE m @@ (l.source :> <<>>)
             m3 == [m1 EXCEPT ![l.source] =
                        Append(@, [neighborId |-> l.target, edgeType |-> l.edge_type])]
         IN  buildAdjacencyMapOneWay(Tail(links), m3)

\* links.forEach(link => ...): initialise both lists, push both directions
RECURSIVE buildAdjacencyMap(_, _)
buildAdjacencyMap(links, m) ==
    IF links = <<>> THEN m
    ELSE LET l  == Head(links)
             m1 == IF l.source \in DOMAIN m THEN m ELSE m @@ (l.source :> <<>>)
             m2 == IF l.target \in DOMAIN m1 THEN m1 ELSE m1 @@ (l.target :> <<>>)
             m3 == [m2 EXCEPT ![l.source] =
                        Append(@, [neighborId |-> l.target, edgeType |-> l.edge_type])]
             m4 == [m3 EXCEPT ![l.target] =
                        Append(@, [neighborId |-> l.source, edgeType |-> l.edge_type])]
         IN  buildAdjacencyMap(Tail(links), m4)

\* this.adjacencyMap.get(nodeId) || []
neighborsOf(adj, nodeId) == IF nodeId \in DOMAIN adj THEN adj[nodeId] ELSE <<>>

-----------------------------------------------------------------------------
(* NetworkBuilder.searchNodes *)

\* terms that are trimmed and keep their case
normalizedTermsKeepCase(searchTerms) ==
    [i \in 1..Len(searchTerms) |-> trim(searchTerms[i])]

\* searchTerms.map(t => t.toLowerCase().trim())
normalizedTerms(searchTerms) ==
    [i \in 1..Len(searchTerms) |-> trim(toLowerCase(searchTerms[i]))]

\* String(value) of a small non-negative number
NumberToString(n) == <<ToString(n)>>

\* the switch(field) of searchNodes; UndefinedText stands for null/undefined
fieldValue(node, field) ==
    CASE field = "name" -> node.name
      [] field = "full_name" -> node.full_name
      [] field = "definition" -> UndefinedText
      [] field = "text" -> UndefinedText
      [] field = "val" -> IF node.val = 0 THEN UndefinedText ELSE NumberToString(node.val)
      [] OTHER -> UndefinedText

\* searchableValues of one node: the values that are not null/undefined, lower-cased
searchableValues(node, searchFields) ==
    {toLowerCase(fieldValue(node, searchFields[i])) :
        i \in {j \in 1..Len(searchFields) : fieldValue(node, searchFields[j]) # UndefinedText}}

termMatches(term, values) == \E v \in values : includes(v, term)

searchNodes(nodes, searchTerms, searchFields, logic) ==
    LET terms == normalizedTerms(searchTerms)
        matches(node) ==
            LET values == searchableValues(node, searchFields)
            IN  IF logic = "OR"
                THEN \E i \in 1..Len(terms) : termMatches(terms[i], values)
                ELSE \A i \in 1..Len(terms) : termMatches(terms[i], values)
    IN  {nodes[i].id : i \in {j \in 1..Len(nodes) : matches(nodes[j])}}

-----------------------------------------------------------------------------
(* NetworkBuilder.filterByAttributes *)

\* node.category || ''
categoryOrEmpty(node) == IF node.category = Undefined THEN "" ELSE node.category

\* networkBuilder.ts: an empty list allows everything
typeMatch_ts(node, allowedNodeTypes) ==
    allowedNodeTypes = {} \/ node.node_type \in allowedNodeTypes

categoryMatch_ts(node, allowedCategories) ==
    allowedCategories = {} \/ node.category \in allowedCategories

filterByAttributes_ts(nodes, allowedNodeTypes, allowedCategories) ==
    {nodes[i].id : i \in {j \in 1..Len(nodes) :
        /\ typeMatch_ts(nodes[j], allowedNodeTypes)
        /\ categoryMatch_ts(nodes[j], allowedCategories)}}

\* part_000: an empty list allows nothing; index nodes skip the category check
typeMatch_p0(node, allowedNodeTypes) ==
    IF allowedNodeTypes = {} THEN FALSE ELSE node.node_type \in allowedNodeTypes

categoryMatch_p0(node, allowedCategories) ==
    \/ node.node_type = "index"
    \/ (allowedCategories # {} /\ categoryOrEmpty(node) \in allowedCategories)

filterByAttributes_p0(nodes, allowedNodeTypes, allowedCategories) ==
    {nodes[i].id : i \in {j \in 1..Len(nodes) :
        /\ typeMatch_p0(nodes[j], allowedNodeTypes)
        /\ categoryMatch_p0(nodes[j], allowedCategories)}}

-----------------------------------------------------------------------------
(* NetworkBuilder.expandFromSeeds *)

edgeTypeFilter(neighbors, allowedEdgeTypes) ==
    SelectSeq(neighbors, LAMBDA n : n.edgeType \in allowedEdgeTypes)

\* networkBuilder.ts: no allowed edge type means every neighbor
filteredNeighbors_ts(neighbors, allowedEdgeTypes) ==
    IF allowedEdgeTypes = {} THEN neighbors
    ELSE edgeTypeFilter(neighbors, allowedEdgeTypes)

\* part_000: no allowed edge type means no neighbor
filteredNeighbors_p0(neighbors, allowedEdgeTypes) ==
    IF allowedEdgeTypes = {} THEN <<>>
    ELSE edgeTypeFilter(neighbors, allowedEdgeTypes)

filteredNeighbors(rv, neighbors, allowedEdgeTypes) ==
    IF rv = "ts" THEN filteredNeighbors_ts(neighbors, allowedEdgeTypes)
    ELSE filteredNeighbors_p0(neighbors, allowedEdgeTypes)

\* a cap that lets one neighbor too many through
limitedNeighborsOffByOne(filtered, maxNeighborsPerNode) ==
    IF maxNeighborsPerNode > 0 THEN slice0(filtered, maxNeighborsPerNode + 1) ELSE filtered

\* maxNeighborsPerNode > 0 ? filteredNeighbors.slice(0, maxNeighborsPerNode) : filteredNeighbors
limitedNeighbors(filtered, maxNeighborsPerNode) ==
    IF maxNeighborsPerNode > 0 THEN slice0(filtered, maxNeighborsPerNode) ELSE filtered

\* the neighbors one frontier node offers in one layer
offeredBy(rv, adj, nodeId, maxNeighborsPerNode, allowedEdgeTypes) ==
    limitedNeighbors(filteredNeighbors(rv, neighborsOf(adj, nodeId), allowedEdgeTypes),
                     maxNeighborsPerNode)

\* a loop body that admits visited ids again
nextLayerRevisiting(rv, adj, currentLayer, expanded, maxNeighborsPerNode, allowedEdgeTypes) ==
    UNION {{n.neighborId :
              n \in Range(offeredBy(rv, adj, nodeId, maxNeighborsPerNode, allowedEdgeTypes))} :
           nodeId \in currentLayer}

\* one pass of the for loop body: the ids added to nextLayer
nextLayerOf(rv, adj, currentLayer, expanded, maxNeighborsPerNode, allowedEdgeTypes) ==
    {id \in UNION {{n.neighborId :
                      n \in Range(offeredBy(rv, adj, nodeId, maxNeighborsPerNode,
                                            allowedEdgeTypes))} :
                   nodeId \in currentLayer} :
        id \notin expanded}

\* for (let i = 0; i < depth; i++) { ...; if (currentLayer.size === 0) break; }
RECURSIVE expandLoop(_, _, _, _, _, _, _, _)
expandLoop(rv, adj, i, depth, currentLayer, expanded, maxNeighborsPerNode, allowedEdgeTypes) ==
    IF i >= depth THEN expanded
    ELSE LET nextLayer == nextLayerOf(rv, adj, currentLayer, expanded,
                                      maxNeighborsPerNode, allowedEdgeTypes)
         IN  IF nextLayer = {} THEN expanded
             ELSE expandLoop(rv, adj, i + 1, depth, nextLayer, expanded \cup nextLayer,
                             maxNeighborsPerNode, allowedEdgeTypes)

expandFromSeeds(rv, adj, seedIds, depth, maxNeighborsPerNode, allowedEdgeTypes) ==
    expandLoop(rv, adj, 0, depth, seedIds, seedIds, maxNeighborsPerNode, allowedEdgeTypes)

-----------------------------------------------------------------------------
(* NetworkBuilder.selectTopNodesByDegree and the ranking of buildNetwork *)

\* Array.prototype.sort((a, b) => degree(b) - degree(a)) is stable: x goes
\* behind every element whose degree is at least its own
\* an insertion that puts x before the elements of its own degree
RECURSIVE insertByDegreeUnstable(_, _, _)
insertByDegreeUnstable(sorted, x, degree) ==
    IF sorted = <<>> THEN <<x>>
    ELSE IF degree[Head(sorted)] > degree[x]
         THEN <<Head(sorted)>> \o insertByDegreeUnstable(Tail(sorted), x, degree)
         ELSE <<x>> \o sorted

RECURSIVE insertByDegree(_, _, _)
insertByDegree(sorted, x, degree) ==
    IF sorted = <<>> THEN <<x>>
    ELSE IF degree[Head(sorted)] >= degree[x]
         THEN <<Head(sorted)>> \o insertByDegree(Tail(sorted), x, degree)
         ELSE <<x>> \o sorted

RECURSIVE sortByDegreeDesc(_, _)
sortByDegreeDesc(ids, degree) ==
    IF ids = <<>> THEN <<>>
    ELSE insertByDegree(sortByDegreeDesc(SubSeq(ids, 1, Len(ids) - 1), degree),
                        ids[Len(ids)], degree)

\* .sort(...).slice(0, maxNodes)
topByDegree(ids, degree, maxNodes) == slice0(sortByDegreeDesc(ids, degree), maxNodes)

\* a ranking that counts every neighbor id once
selectTopNodesByDistinctNeighbors(adj, nodeIds, maxNodes) ==
    topByDegree(nodeIds,
                [id \in Range(nodeIds) |->
                    Cardinality({n.neighborId : n \in Range(neighborsOf(adj, id))})],
                maxNodes)

\* global mode: degree is the length of the node's adjacency list
selectTopNodesByDegree(adj, nodeIds, maxNodes) ==
    topByDegree(nodeIds, [id \in Range(nodeIds) |-> Len(neighborsOf(adj, id))], maxNodes)

\* subgraph mode: nodeDegrees counts the end points of candidateLinks;
\* .filter(nodeId => nodeDegrees.has(nodeId)) keeps the ids that are an end point
selectTopNodesBySubgraphDegree(candidateLinks, nodeIds, maxNodes) ==
    LET touched == {candidateLinks[i].source : i \in 1..Len(candidateLinks)}
                   \cup {candidateLinks[i].target : i \in 1..Len(candidateLinks)}
        ranked  == FilterSeq(nodeIds, touched)
    IN  topByDegree(ranked, [id \in Range(ranked) |-> rawDegree(candidateLinks, id)],
                    maxNodes)

-----------------------------------------------------------------------------
(* NetworkBuilder.buildNetwork *)

\* a test that looks at the fields alone
searchRequestedByFields(q) == q.searchFields # <<>>

searchRequested(q) == q.searchTerms # <<>> /\ q.searchFields # <<>>

\* the value of the early returns
EmptyResult == [nodes |-> <<>>, links |-> <<>>, truncated |-> FALSE, matchedCount |-> 0]

NoLocals == [path |-> "none", seedNodeIds |-> {}, expandedIds |-> {},
             seedsAfterFilter |-> {}, candidateNodeIds |-> {}, candidateLinks |-> <<>>,
             connectedNodeIds |-> <<>>, finalNodeIds |-> {}]

\* ids of allNodes, in order
idSeq(nodes) == [i \in 1..Len(nodes) |-> nodes[i].id]

\* candidateLinks: allLinks.filter(edgeTypeMatch && both end points are candidate nodes)
edgeTypeMatch_ts(link, allowedEdgeTypes) ==
    allowedEdgeTypes = {} \/ link.edge_type \in allowedEdgeTypes

edgeTypeMatch_p0(link, allowedEdgeTypes) ==
    allowedEdgeTypes # {} /\ link.edge_type \in allowedEdgeTypes

edgeTypeMatch(rv, link, allowedEdgeTypes) ==
    IF rv = "ts" THEN edgeTypeMatch_ts(link, allowedEdgeTypes)
    ELSE edgeTypeMatch_p0(link, allowedEdgeTypes)

\* links with at least one end point among ids
linksTouching(links, ids) ==
    SelectSeq(links, LAMBDA l : l.source \in ids \/ l.target \in ids)

linksBetween(links, ids) ==
    SelectSeq(links, LAMBDA l : l.source \in ids /\ l.target \in ids)

candidateLinksOf(rv, links, candidateIds, allowedEdgeTypes) ==
    SelectSeq(linksBetween(links, candidateIds),
              LAMBDA l : edgeTypeMatch(rv, l, allowedEdgeTypes))

\* a Step 5 that keeps the candidate nodes without a candidate link
connectedNodeIdsKeepIsolates(candidateNodes, candidateLinks) == candidateNodes

\* Step 5: the candidate nodes that are an end point of a candidate link
connectedNodeIdsOf(candidateNodes, candidateLinks) ==
    FilterSeq(candidateNodes,
              {candidateLinks[i].source : i \in 1..Len(candidateLinks)}
              \cup {candidateLinks[i].target : i \in 1..Len(candidateLinks)})

\* Step 6: the node cap
finalNodeIdsOf(adj, connected, candidateLinks, maxTotalNodes, nodeRankingMode) ==
    IF Len(connected) > maxTotalNodes
    THEN IF nodeRankingMode = "subgraph"
         THEN Range(selectTopNodesBySubgraphDegree(candidateLinks, connected, maxTotalNodes))
         ELSE Range(selectTopNodesByDegree(adj, connected, maxTotalNodes))
    ELSE Range(connected)

\* Step 8: node.val = nodeDegree.get(node.id) || 1 on the returned node objects
recolour(nodes, returnedIds, returnedLinks) ==
    [i \in 1..Len(nodes) |->
        IF nodes[i].id \in returnedIds
        THEN [nodes[i] EXCEPT !.val =
                 IF rawDegree(returnedLinks, nodes[i].id) = 0 THEN 1
                 ELSE rawDegree(returnedLinks, nodes[i].id)]
        ELSE nodes[i]]

\* Steps 3 to 8, from the candidate set on
normalPath(rv, nodes, links, adj, q, loc) ==
    LET candidateNodes == FilterSeq(idSeq(nodes), loc.candidateNodeIds)
        candidateLinks == candidateLinksOf(rv, links, Range(candidateNodes),
                                           q.allowedEdgeTypes)
        connected      == connectedNodeIdsOf(candidateNodes, candidateLinks)
        totalMatches   == Len(connected)
        truncated      == totalMatches > q.maxTotalNodes
        finalNodeIds   == finalNodeIdsOf(adj, connected, candidateLinks,
                                         q.maxTotalNodes, q.nodeRankingMode)
        outNodes       == FilterSeq(idSeq(nodes), finalNodeIds)
        outLinks       == linksBetween(candidateLinks, Range(outNodes))
    IN  IF rv = "p0" /\ q.allowedEdgeTypes = {} /\ q.expansionDepth = 0
        THEN [result |-> [nodes |-> candidateNodes, links |-> <<>>, truncated |-> FALSE,
                          matchedCount |-> Len(candidateNodes)],
              locals |-> [loc EXCEPT !.path = "special", !.candidateLinks = candidateLinks],
              nodes  |-> nodes]
        ELSE [result |-> [nodes |-> outNodes, links |-> outLinks, truncated |-> truncated,
                          matchedCount |-> totalMatches],
              locals |-> [loc EXCEPT !.path = "normal", !.candidateLinks = candidateLinks,
                                     !.connectedNodeIds = connected,
                                     !.finalNodeIds = finalNodeIds],
              nodes  |-> recolour(nodes, Range(outNodes), outLinks)]

\* Step 1b: the candidates of a search, before the seed filter
expandedOf(rv, adj, q, seeds) ==
    IF q.expansionDepth > 0
    THEN expandFromSeeds(rv, adj, seeds, q.expansionDepth, q.maxNodesPerExpansion,
                         q.allowedEdgeTypes)
    ELSE seeds

\* a search without a match that shows the whole graph instead
noMatchReturnsAllNodes(nodes) ==
    [result |-> [nodes |-> idSeq(nodes), links |-> <<>>, truncated |-> FALSE,
                 matchedCount |-> Len(nodes)],
     locals |-> [NoLocals EXCEPT !.path = "noMatch"],
     nodes |-> nodes]

\* the early return of Step 1
noMatchReturn(nodes) ==
    [result |-> EmptyResult, locals |-> [NoLocals EXCEPT !.path = "noMatch"],
     nodes |-> nodes]

(* networkBuilder.ts *)

\* Step 2: the seeds that pass the type and category filter
seedPasses_ts(node, q) ==
    /\ typeMatch_ts(node, q.allowedNodeTypes)
    /\ categoryMatch_ts(node, q.allowedCategories)

seedsAfterFilter_ts(nodes, q, seeds) ==
    {id \in seeds : id \in NodeIds(nodes) /\ seedPasses_ts(NodeOf(nodes, id), q)}

\* a Step 2 that leaves the seeds that failed among the candidates
candidatesKeepFailedSeeds_ts(nodes, q, seeds, expanded) == expanded

\* Step 2 runs only when a search was requested and some filter list is not empty
candidatesAfterSeedFilter_ts(nodes, q, seeds, expanded) ==
    IF q.allowedNodeTypes # {} \/ q.allowedCategories # {}
    THEN {id \in expanded : id \in seedsAfterFilter_ts(nodes, q, seeds) \/ id \notin seeds}
    ELSE expanded

buildNetwork_ts(nodes, links, adj, q) ==
    IF searchRequested(q)
    THEN LET seeds == searchNodes(nodes, q.searchTerms, q.searchFields, q.searchLogic)
         IN  IF seeds = {} THEN noMatchReturn(nodes)
             ELSE LET expanded == expandedOf("ts", adj, q, seeds)
                      kept     == IF q.allowedNodeTypes # {} \/ q.allowedCategories # {}
                                  THEN seedsAfterFilter_ts(nodes, q, seeds)
                                  ELSE seeds
                  IN  normalPath("ts", nodes, links, adj, q,
                          [NoLocals EXCEPT
                              !.seedNodeIds = seeds,
                              !.expandedIds = expanded,
                              !.seedsAfterFilter = kept,
                              !.candidateNodeIds =
                                  candidatesAfterSeedFilter_ts(nodes, q, seeds, expanded)])
    ELSE normalPath("ts", nodes, links, adj, q,
                    [NoLocals EXCEPT !.candidateNodeIds = NodeIds(nodes)])

(* part_000 *)

hasCategory(node) == node.node_type = "form" \/ node.node_type = "line"

\* Step 1b: the filter on the expanded nodes that are not seeds
expandedPasses_p0(node, q) ==
    /\ typeMatch_ts(node, q.allowedNodeTypes)
    /\ (hasCategory(node) =>
            (q.allowedCategories = {} \/ categoryOrEmpty(node) \in q.allowedCategories))

filterExpanded_p0(nodes, q, seeds, expanded) ==
    IF q.expansionDepth > 0 /\ (q.allowedNodeTypes # {} \/ q.allowedCategories # {})
    THEN {id \in expanded :
            /\ id \in NodeIds(nodes)
            /\ (id \in seeds \/ expandedPasses_p0(NodeOf(nodes, id), q))}
    ELSE expanded

\* Step 2: the seeds that pass the type and category filter
seedPasses_p0(node, q) ==
    /\ q.allowedNodeTypes # {} /\ node.node_type \in q.allowedNodeTypes
    /\ (hasCategory(node) =>
            (q.allowedCategories # {} /\ categoryOrEmpty(node) \in q.allowedCategories))

seedsAfterFilter_p0(nodes, q, seeds) ==
    {id \in seeds : id \in NodeIds(nodes) /\ seedPasses_p0(NodeOf(nodes, id), q)}

buildNetwork_p0(nodes, links, adj, q) ==
    IF searchRequested(q)
    THEN LET seeds == searchNodes(nodes, q.searchTerms, q.searchFields, q.searchLogic)
         IN  IF seeds = {} THEN noMatchReturn(nodes)
             ELSE LET expanded == expandedOf("p0", adj, q, seeds)
                      filtered == filterExpanded_p0(nodes, q, seeds, expanded)
                      kept     == seedsAfterFilter_p0(nodes, q, seeds)
                      loc      == [NoLocals EXCEPT
                                      !.seedNodeIds = seeds,
                                      !.expandedIds = expanded,
                                      !.seedsAfterFilter = kept,
                                      !.candidateNodeIds =
                                          {id \in filtered : id \in kept \/ id \notin seeds}]
                  IN  IF kept = {}
                      THEN [result |-> EmptyResult,
                            locals |-> [loc EXCEPT !.path = "noSeeds"],
                            nodes  |-> nodes]
                      ELSE normalPath("p0", nodes, links, adj, q, loc)
    ELSE normalPath("p0", nodes, links, adj, q,
                    [NoLocals EXCEPT !.candidateNodeIds = NodeIds(nodes)])

-----------------------------------------------------------------------------
(* The queries explored *)

Query(terms, fields, logic, types, edges, cats, depth, perStep, total, mode) ==
    [searchTerms |-> terms, searchFields |-> fields, searchLogic |-> logic,
     allowedNodeTypes |-> types, allowedEdgeTypes |-> edges, allowedCategories |-> cats,
     expansionDepth |-> depth, maxNodesPerExpansion |-> perStep,
     maxTotalNodes |-> total, nodeRankingMode |-> mode]

NoQuery == Query(<<>>, <<>>, "OR", {}, {}, {}, 0, 0, 0, "global")

\* (searchTerms, searchFields): no terms, no fields, terms that match two
\* nodes of different types, one node, no node
Searches ==
    { <<<<>>, <<"name">>>>,
      <<<< <<"a">> >>, <<>>>>,
      <<<< <<"a">> >>, <<"name">>>>,
      <<<< <<" ", "C">> >>, <<"name">>>>,
      <<<< <<"z">> >>, <<"name">>>> }

NodeTypeLists == { {}, {"index"}, NodeTypes }
CategoryLists == { {}, {"individual"}, {"corporation"} }
EdgeTypeLists == { {}, {"cites_section"}, EdgeTypes }
\* the application passes one value; smaller caps are explored on
\* expandFromSeeds itself
PerStepCaps == {AppMaxNodesPerExpansion}

\* (expansionDepth, maxNodesPerExpansion): the cap is read only when the depth
\* is positive
Expansions ==
    {<<0, AppMaxNodesPerExpansion>>} \cup ((1..MaxDepth) \X PerStepCaps)

Queries ==
    { Query(s[1], s[2], "OR", t, e, c, x[1], x[2], m, r) :
        s \in Searches, t \in NodeTypeLists, e \in EdgeTypeLists, c \in CategoryLists,
        x \in Expansions, m \in 0..MaxTotal, r \in {"global", "subgraph"} }

NoXp == [seedIds |-> {}, depth |-> 0, maxNeighborsPerNode |-> 0,
         allowedEdgeTypes |-> {}, i |-> 0, expanded |-> {}, currentLayer |-> {},
         nextLayer |-> {}, offered |-> EmptyMap, broke |-> FALSE]

NoFl == [allowedNodeTypes |-> {}, allowedCategories |-> {}, matchedIds |-> {}]

NoSr == [searchTerms |-> <<>>, searchFields |-> <<>>, logic |-> "OR", matchedIds |-> {}]

\* api.ts before any call: cachedGraph is null (0), no fetch was issued, no
\* caller is running, no graph object was made
NoApi == [cachedGraph |-> 0, fetches |-> 0, objects |-> 0, callers |-> EmptyMap]

\* no builder waits for the next render
NoBuilder == [allNodes |-> <<>>, allLinks |-> <<>>, adjacencyMap |-> EmptyMap]

\* App.tsx after loadGraphData has run and the builder it set was rendered
BuilderReady == [ready |-> TRUE, started |-> 1, inFlight |-> 0, set |-> FALSE,
                 pending |-> NoBuilder]

-----------------------------------------------------------------------------
(* The engine in use: a builder over one loaded graph answers queries *)

\* App.tsx loadGraphData: setBuilder(new NetworkBuilder(data.nodes, data.links))
Loaded(rawNodes, links) ==
    /\ allNodes = loadGraphNodes(rawNodes, links)
    /\ allLinks = links
    /\ adjacencyMap = buildAdjacencyMap(links, EmptyMap)
    /\ pc = "idle"
    /\ rev = "ts"
    /\ query = NoQuery
    /\ result = EmptyResult
    /\ locals = NoLocals
    /\ xp = NoXp
    /\ fl = NoFl
    /\ sr = NoSr
    /\ previous = EmptyResult
    /\ api = NoApi
    /\ app = BuilderReady

Init == \E links \in LinkLists : Loaded(BaseNodes, links)

Returned(rv, q, out) ==
    /\ pc' = "returned"
    /\ rev' = rv
    /\ query' = q
    /\ result' = out.result
    /\ locals' = out.locals
    /\ allNodes' = out.nodes
    /\ UNCHANGED <<allLinks, adjacencyMap, xp, fl, sr, previous, api, app>>

\* builder.buildNetwork(builderState, searchLogic, nodeRankingMode), networkBuilder.ts
BuildNetwork_ts ==
    /\ pc = "idle"
    /\ \E q \in Queries :
          Returned("ts", q, buildNetwork_ts(allNodes, allLinks, adjacencyMap, q))

\* the same call, part_000
BuildNetwork_p0 ==
    /\ pc = "idle"
    /\ \E q \in Queries :
          Returned("p0", q, buildNetwork_p0(allNodes, allLinks, adjacencyMap, q))

FilterReturned(rv, types, cats, ids) ==
    /\ pc' = "filtered"
    /\ rev' = rv
    /\ fl' = [allowedNodeTypes |-> types, allowedCategories |-> cats, matchedIds |-> ids]
    /\ UNCHANGED <<allNodes, allLinks, adjacencyMap, query, result, locals, xp, sr, previous,
                   api, app>>

\* builder.filterByAttributes(allowedNodeTypes, allowedCategories), networkBuilder.ts
FilterByAttributes_ts ==
    /\ pc = "idle"
    /\ \E types \in NodeTypeLists, cats \in CategoryLists :
          FilterReturned("ts", types, cats, filterByAttributes_ts(allNodes, types, cats))

\* the same call, part_000
FilterByAttributes_p0 ==
    /\ pc = "idle"
    /\ \E types \in NodeTypeLists, cats \in CategoryLists :
          FilterReturned("p0", types, cats, filterByAttributes_p0(allNodes, types, cats))

\* the caller drops the returned value; the node objects keep what the call wrote
Idle ==
    /\ pc \in {"returned", "repeated", "filtered", "searched"}
    /\ pc' = "idle"
    /\ query' = NoQuery
    /\ result' = EmptyResult
    /\ locals' = NoLocals
    /\ fl' = NoFl
    /\ sr' = NoSr
    /\ previous' = EmptyResult
    /\ rev' = "ts"
    /\ UNCHANGED <<allNodes, allLinks, adjacencyMap, xp, api, app>>

Next ==
    \/ BuildNetwork_ts
    \/ BuildNetwork_p0
    \/ FilterByAttributes_ts
    \/ FilterByAttributes_p0
    \/ Idle

Spec == Init /\ [][Next]_vars

-----------------------------------------------------------------------------
(* expandFromSeeds, one loop iteration at a time *)

SeedSets == SUBSET NodeIds(BaseNodes)

\* the state of the call at the head of its for loop
ExpandCalled(rv, seedIds, depth, maxNeighborsPerNode, allowedEdgeTypes) ==
    /\ pc' = "expanding"
    /\ rev' = rv
    /\ xp' = [seedIds |-> seedIds, depth |-> depth,
              maxNeighborsPerNode |-> maxNeighborsPerNode,
              allowedEdgeTypes |-> allowedEdgeTypes,
              i |-> 0, expanded |-> seedIds, currentLayer |-> seedIds,
              nextLayer |-> {}, offered |-> EmptyMap, broke |-> FALSE]
    /\ UNCHANGED <<allNodes, allLinks, adjacencyMap, query, result, locals, fl, sr, previous,
                   api, app>>

\* builder.expandFromSeeds(seedIds, depth, maxNeighborsPerNode, allowedEdgeTypes),
\* networkBuilder.ts
ExpandFromSeeds_ts ==
    /\ pc = "idle"
    /\ \E seedIds \in SeedSets, depth \in 0..MaxHops, cap \in 0..MaxNeighbors,
          edges \in EdgeTypeLists :
          ExpandCalled("ts", seedIds, depth, cap, edges)

\* the same call, part_000
ExpandFromSeeds_p0 ==
    /\ pc = "idle"
    /\ \E seedIds \in SeedSets, depth \in 0..MaxHops, cap \in 0..MaxNeighbors,
          edges \in EdgeTypeLists :
          ExpandCalled("p0", seedIds, depth, cap, edges)

\* one iteration of the for loop: offered records limitedNeighbors per frontier node
ExpandLayer ==
    /\ pc = "expanding"
    /\ xp.i < xp.depth
    /\ ~xp.broke
    /\ LET nextLayer == nextLayerOf(rev, adjacencyMap, xp.currentLayer, xp.expanded,
                                    xp.maxNeighborsPerNode, xp.allowedEdgeTypes)
       IN  xp' = [xp EXCEPT
                    !.offered = [nodeId \in xp.currentLayer |->
                                    offeredBy(rev, adjacencyMap, nodeId,
                                              xp.maxNeighborsPerNode, xp.allowedEdgeTypes)],
                    !.nextLayer = nextLayer,
                    !.expanded = xp.expanded \cup nextLayer,
                    !.currentLayer = nextLayer,
                    !.i = xp.i + 1,
                    !.broke = (nextLayer = {})]
    /\ UNCHANGED <<allNodes, allLinks, adjacencyMap, pc, rev, query, result, locals, fl, sr, previous,
                   api, app>>

\* the loop is left (i = depth, or break): return expanded
ExpandReturn ==
    /\ pc = "expanding"
    /\ (xp.i >= xp.depth \/ xp.broke)
    /\ pc' = "expanded"
    /\ UNCHANGED <<allNodes, allLinks, adjacencyMap, rev, query, result, locals, xp, fl, sr, previous,
                   api, app>>

NextExpand == ExpandFromSeeds_ts \/ ExpandFromSeeds_p0 \/ ExpandLayer \/ ExpandReturn

SpecExpand == Init /\ [][NextExpand]_vars

\* the call runs to its return: the for loop is sequential code, every
\* iteration and the return statement are executed once they are reached
SpecExpandFair ==
    Init /\ [][NextExpand]_vars /\ WF_vars(ExpandLayer) /\ WF_vars(ExpandReturn)

\* the loop and the function buildNetwork calls agree
ExpandLoopAgrees ==
    pc = "expanded" =>
        xp.expanded = expandFromSeeds(rev, adjacencyMap, xp.seedIds, xp.depth,
                                      xp.maxNeighborsPerNode, xp.allowedEdgeTypes)

-----------------------------------------------------------------------------
(* The scenario graph of the specification: A (index), B (form, individual), *)
(* C (form, corporation), A-B and A-C of type cites_section                  *)

ScenarioNodes ==
    << Node("A", <<"A">>, "index", Undefined, UndefinedText),
       Node("B", <<"B">>, "form", "individual", UndefinedText),
       Node("C", <<"C">>, "form", "corporation", UndefinedText) >>

ScenarioLinks ==
    << Link("A", "B", "cites_section"), Link("A", "C", "cites_section") >>

\* the scenario's query, with the fields it leaves open drawn from their domains
ScenarioQueries ==
    { Query(<< <<"A">> >>, <<"name">>, l, {"index"}, {"cites_section"}, c, d,
            AppMaxNodesPerExpansion, m, r) :
        l \in {"OR", "AND"}, c \in SUBSET Categories, d \in {0, 1},
        m \in {0, 1, 2, 3, 10}, r \in {"global", "subgraph"} }

InitScenario == Loaded(ScenarioNodes, ScenarioLinks)

ScenarioBuildNetwork_ts ==
    /\ pc = "idle"
    /\ \E q \in ScenarioQueries :
          Returned("ts", q, buildNetwork_ts(allNodes, allLinks, adjacencyMap, q))

ScenarioBuildNetwork_p0 ==
    /\ pc = "idle"
    /\ \E q \in ScenarioQueries :
          Returned("p0", q, buildNetwork_p0(allNodes, allLinks, adjacencyMap, q))

NextScenario == ScenarioBuildNetwork_p0 \/ ScenarioBuildNetwork_ts \/ Idle

SpecScenario == InitScenario /\ [][NextScenario]_vars

-----------------------------------------------------------------------------
(* searchNodes called on its own *)

MaxTerms == 2
MaxFields == 2

\* the sequences over a set with at most n elements
RECURSIVE SeqsUpTo(_, _)
SeqsUpTo(S, n) ==
    IF n = 0 THEN {<<>>}
    ELSE SeqsUpTo(S, n - 1) \cup {Append(q, x) : q \in SeqsUpTo(S, n - 1), x \in S}

\* terms in upper and lower case, with blanks around them, and the empty term
SearchTermPool == { <<"a">>, <<" ", "C">>, <<"B">>, <<"x", " ">>, <<>> }

\* a field every node has, one only some nodes have, one no node has
SearchFieldPool == {"name", "full_name", "text"}

\* builder.searchNodes(searchTerms, searchFields, logic); the method is the
\* same in both revisions
SearchNodes ==
    /\ pc = "idle"
    /\ \E terms \in SeqsUpTo(SearchTermPool, MaxTerms),
          fields \in SeqsUpTo(SearchFieldPool, MaxFields),
          logic \in {"OR", "AND"} :
          sr' = [searchTerms |-> terms, searchFields |-> fields, logic |-> logic,
                 matchedIds |-> searchNodes(allNodes, terms, fields, logic)]
    /\ pc' = "searched"
    /\ UNCHANGED <<allNodes, allLinks, adjacencyMap, rev, query, result, locals, xp, fl,
                   previous, api, app>>

NextSearch == SearchNodes \/ Idle

\* the fields searched do not depend on the links: one graph is enough
InitSearch == Loaded(BaseNodes, SubSeq(LinkPool, 1, MaxEdges))

SpecSearch == InitSearch /\ [][NextSearch]_vars

-----------------------------------------------------------------------------
(* The same query asked twice in a row *)

\* searches on the name and on val, the attribute buildNetwork writes
RepeatSearches ==
    { <<<<>>, <<>>>>,
      <<<< <<"a">> >>, <<"name">>>>,
      <<<< <<"1">> >>, <<"val">>>>,
      <<<< <<"2">> >>, <<"val">>>> }

RepeatQueries ==
    { Query(s[1], s[2], "OR", t, e, c, d, AppMaxNodesPerExpansion, m, r) :
        s \in RepeatSearches, t \in {{}, NodeTypes}, e \in {{}, EdgeTypes},
        c \in {{}, {"individual"}}, d \in 0..MaxDepth, m \in 0..MaxTotal,
        r \in {"global", "subgraph"} }

FirstBuildNetwork_ts ==
    /\ pc = "idle"
    /\ \E q \in RepeatQueries :
          Returned("ts", q, buildNetwork_ts(allNodes, allLinks, adjacencyMap, q))

FirstBuildNetwork_p0 ==
    /\ pc = "idle"
    /\ \E q \in RepeatQueries :
          Returned("p0", q, buildNetwork_p0(allNodes, allLinks, adjacencyMap, q))

\* the caller keeps the returned value and calls again with the same arguments
BuildNetworkAgain ==
    /\ pc = "returned"
    /\ LET out == IF rev = "ts"
                  THEN buildNetwork_ts(allNodes, allLinks, adjacencyMap, query)
                  ELSE buildNetwork_p0(allNodes, allLinks, adjacencyMap, query)
       IN  /\ previous' = result
           /\ result' = out.result
           /\ locals' = out.locals
           /\ allNodes' = out.nodes
    /\ pc' = "repeated"
    /\ UNCHANGED <<allLinks, adjacencyMap, rev, query, xp, fl, sr, api, app>>

NextRepeat == FirstBuildNetwork_ts \/ FirstBuildNetwork_p0 \/ BuildNetworkAgain \/ Idle

SpecRepeat == Init /\ [][NextRepeat]_vars

-----------------------------------------------------------------------------
(* Properties of the result of buildNetwork *)

\* C1: on every return path of buildNetwork the returned flag satisfies
\* truncated == (matchedCount > maxTotalNodes).
C1_TruncatedIffOverBudget ==
    pc = "returned" =>
        (result.truncated <=> (result.matchedCount > query.maxTotalNodes))

\* C2: for every query with maxTotalNodes >= 0 the number of returned nodes
\* is at most maxTotalNodes, on every return path.
C2_NodesWithinBudget ==
    (pc = "returned" /\ query.maxTotalNodes >= 0) =>
        Len(result.nodes) <= query.maxTotalNodes

\* C3: in search mode a base node that expansion reached and that is not a
\* seed is never removed from the candidate set by the node-type or category
\* filter, whatever the allow-lists hold.
C3_ExpandedNodesNotFiltered ==
    (pc = "returned" /\ searchRequested(query) /\ locals.path \in {"normal", "special"}) =>
        \A id \in (locals.expandedIds \ locals.seedNodeIds) \cap NodeIds(allNodes) :
            id \in locals.candidateNodeIds

\* C4: scenario A: searchTerms = ["A"], searchFields = ["name"],
\* allowedNodeTypes = [index], allowedEdgeTypes = [cites_section],
\* expansionDepth = 1, maxTotalNodes = 10 on the scenario graph returns the
\* nodes A, B, C and both links, truncated = false, matchedCount = 3.
C4_ScenarioA ==
    (pc = "returned" /\ query.expansionDepth = 1 /\ query.maxTotalNodes = 10) =>
        result = [nodes |-> <<"A", "B", "C">>, links |-> ScenarioLinks,
                  truncated |-> FALSE, matchedCount |-> 3]

\* C5: scenario B: the query of scenario A with maxTotalNodes = 1 and global
\* ranking returns the node A alone and no link, truncated = true,
\* matchedCount = 3.
C5_ScenarioB ==
    (pc = "returned" /\ query.expansionDepth = 1 /\ query.maxTotalNodes = 1
        /\ query.nodeRankingMode = "global") =>
        result = [nodes |-> <<"A">>, links |-> <<>>,
                  truncated |-> TRUE, matchedCount |-> 3]

\* the last call asked for a search and no node matched
SearchWithoutMatch ==
    /\ pc = "returned"
    /\ query.searchTerms # <<>>
    /\ query.searchFields # <<>>
    /\ searchNodes(allNodes, query.searchTerms, query.searchFields, query.searchLogic) = {}

\* C6: when searchTerms and searchFields are both non-empty and no node
\* matches, buildNetwork returns {nodes: [], edges: [], truncated: false,
\* matchedCount: 0}, whatever the other query fields are.
C6_NoMatchGivesEmptyResult ==
    SearchWithoutMatch =>
        /\ result.nodes = <<>>
        /\ result.links = <<>>
        /\ result.truncated = FALSE
        /\ result.matchedCount = 0

\* C6 happens: a search without a match, with filters, expansion and both
\* revisions of the class
C6_Witness ==
    /\ SearchWithoutMatch
    /\ rev = "p0"
    /\ query.allowedNodeTypes # {}
    /\ query.allowedEdgeTypes # {}
    /\ query.expansionDepth > 0
    /\ allLinks # <<>>

\* the node types the code lets pass without a category (part_000, Step 2)
CategoryAgnosticTypes == {"index", "regulation"}

BlockAll(types, cats, passed) ==
    /\ types = {} => passed = {}
    /\ cats = {} =>
          \A id \in passed : NodeOf(allNodes, id).node_type \in CategoryAgnosticTypes

\* C7: with an empty allowedNodeTypes no node passes the attribute filter,
\* and with an empty allowedCategories only nodes of a category-agnostic
\* type pass; both for filterByAttributes and for the seed filter of
\* buildNetwork.
C7_EmptyListBlocksAll ==
    /\ pc = "filtered" =>
          BlockAll(fl.allowedNodeTypes, fl.allowedCategories, fl.matchedIds)
    /\ (pc = "returned" /\ searchRequested(query) /\ locals.path # "noMatch") =>
          BlockAll(query.allowedNodeTypes, query.allowedCategories,
                   locals.seedsAfterFilter)

\* C10: for every query with allowedEdgeTypes empty and expansionDepth = 0,
\* search or not, buildNetwork returns no edge and every returned node is a
\* seed that passed the attribute filter.
C10_NoEdgeTypesDepthZero ==
    (pc = "returned" /\ query.allowedEdgeTypes = {} /\ query.expansionDepth = 0) =>
        /\ result.links = <<>>
        /\ \A id \in Range(result.nodes) :
              id \in locals.seedNodeIds /\ id \in locals.seedsAfterFilter

-----------------------------------------------------------------------------
(* Properties of expandFromSeeds *)

\* C8: if allowedEdgeTypes is empty, expandFromSeeds returns exactly the
\* seed set, for every depth and every per-node cap.
C8_NoEdgeTypesNoExpansion ==
    (pc = "expanded" /\ xp.allowedEdgeTypes = {}) => xp.expanded = xp.seedIds

\* the adjacency list of a frontier node, restricted to the allowed edge types
AllowedNeighbors(nodeId) ==
    SelectSeq(neighborsOf(adjacencyMap, nodeId),
              LAMBDA n : n.edgeType \in xp.allowedEdgeTypes)

Prefix(s, n) == SubSeq(s, 1, IF Len(s) < n THEN Len(s) ELSE n)

\* C9 as stated: for every maxNeighborsPerStep >= 0, in every layer each
\* frontier node contributes at most maxNeighborsPerStep neighbors.
C9_CapForEveryValue ==
    \A nodeId \in DOMAIN xp.offered :
        Len(xp.offered[nodeId]) <= xp.maxNeighborsPerNode

\* C9 as amended: for every maxNeighborsPerStep >= 1, in every layer each
\* frontier node contributes at most maxNeighborsPerStep neighbors, the
\* first entries of its edge-type-filtered adjacency list, and the layer
\* admits no other node; with maxNeighborsPerStep = 0 the list is not cut.
C9_CapWhenPositive ==
    /\ xp.maxNeighborsPerNode >= 1 =>
          /\ \A nodeId \in DOMAIN xp.offered :
                /\ Len(xp.offered[nodeId]) <= xp.maxNeighborsPerNode
                /\ xp.allowedEdgeTypes # {} =>
                      xp.offered[nodeId] =
                          Prefix(AllowedNeighbors(nodeId), xp.maxNeighborsPerNode)
          /\ Cardinality(xp.nextLayer)
                <= xp.maxNeighborsPerNode * Cardinality(DOMAIN xp.offered)
    /\ xp.nextLayer \subseteq
          UNION {{xp.offered[nodeId][k].neighborId : k \in 1..Len(xp.offered[nodeId])} :
                 nodeId \in DOMAIN xp.offered}
    /\ (xp.maxNeighborsPerNode = 0 /\ xp.allowedEdgeTypes # {}) =>
          \A nodeId \in DOMAIN xp.offered :
              xp.offered[nodeId] = AllowedNeighbors(nodeId)

\* C9 happens: a layer was expanded under a cap that is smaller than the
\* number of allowed neighbors of a frontier node
C9_Witness ==
    /\ pc = "expanding"
    /\ xp.i >= 1
    /\ xp.maxNeighborsPerNode >= 1
    /\ \E nodeId \in DOMAIN xp.offered :
          /\ Len(AllowedNeighbors(nodeId)) > xp.maxNeighborsPerNode
          /\ Len(xp.offered[nodeId]) = xp.maxNeighborsPerNode

-----------------------------------------------------------------------------
(* Properties of searchNodes *)

\* C14: searchNodes returns the empty set whenever the term list or the
\* field list is empty, for logic OR and for logic AND.
C14_EmptySearchMatchesNothing ==
    (pc = "searched" /\ (sr.searchTerms = <<>> \/ sr.searchFields = <<>>)) =>
        sr.matchedIds = {}

\* two characters that differ at most in case
SameLetter(c, d) == LowerChar(c) = LowerChar(d)

\* term occurs in value as a contiguous substring, case ignored
ContainsIgnoringCase(value, term) ==
    \E i \in 0..(Len(value) - Len(term)) :
        \A k \in 1..Len(term) : SameLetter(value[i + k], term[k])

\* the term without the blanks before its first and after its last non-blank
StripBlanks(term) ==
    LET solid == {i \in 1..Len(term) : term[i] # " "}
    IN  IF solid = {} THEN <<>>
        ELSE SubSeq(term, CHOOSE i \in solid : \A j \in solid : i <= j,
                          CHOOSE i \in solid : \A j \in solid : i >= j)

\* the values a node has for the requested fields
ValuesFor(node, fields) ==
    {node[f] : f \in {g \in Range(fields) \cap {"name", "full_name"} :
                        node[g] # UndefinedText}}

\* the match set the matcher semantics prescribes, given how a term is read
MatchSet(read(_)) ==
    {allNodes[i].id : i \in {j \in 1..Len(allNodes) :
        LET values == ValuesFor(allNodes[j], sr.searchFields)
            hit(t) == \E v \in values : ContainsIgnoringCase(v, read(t))
        IN  IF sr.logic = "OR"
            THEN \E k \in 1..Len(sr.searchTerms) : hit(sr.searchTerms[k])
            ELSE \A k \in 1..Len(sr.searchTerms) : hit(sr.searchTerms[k])}}

AsWritten(term) == term

-----------------------------------------------------------------------------
(* Properties of buildNetwork: full-graph mode, repeated calls, the base graph *)

\* the value the revision that ran returns for q on the graph as it is now
Rebuilt(q) ==
    IF rev = "ts" THEN buildNetwork_ts(allNodes, allLinks, adjacencyMap, q)
    ELSE buildNetwork_p0(allNodes, allLinks, adjacencyMap, q)

\* C11: when searchTerms is empty the candidates are all base node ids and
\* no node-type or category filter is applied: whatever allowedNodeTypes and
\* allowedCategories hold, the result is the one the query gives with both
\* lists naming every type and category.
C11_FullGraphModeUnfiltered ==
    (pc = "returned" /\ query.searchTerms = <<>>) =>
        /\ locals.candidateNodeIds = NodeIds(allNodes)
        /\ Rebuilt([query EXCEPT !.allowedNodeTypes = NodeTypes,
                                 !.allowedCategories = Categories]).result = result

\* C11 happens: no terms, both allow-lists name one value, and a node of
\* another type and category is returned
C11_Witness ==
    /\ pc = "returned"
    /\ query.searchTerms = <<>>
    /\ query.searchFields # <<>>
    /\ query.allowedNodeTypes = {"index"}
    /\ query.allowedCategories = {"individual"}
    /\ "C" \in Range(result.nodes)

\* C12: calling buildNetwork twice in a row with the identical query returns
\* identical results, also when searchFields names an attribute such as val.
C12_Idempotent ==
    pc = "repeated" => result = previous

\* C13: buildNetwork leaves the base graph unchanged: every attribute of
\* every base node (val among them) and every base edge keeps its value.
C13_BaseGraphUnchanged ==
    [][allNodes' = allNodes /\ allLinks' = allLinks]_vars

-----------------------------------------------------------------------------
(* Properties of the node cap *)

Position(id) == CHOOSE i \in 1..Len(allNodes) : allNodes[i].id = id

\* a ranks before b: higher degree, or the same degree and earlier in base order
RanksBefore(a, b, degree(_)) ==
    \/ degree(a) > degree(b)
    \/ degree(a) = degree(b) /\ Position(a) < Position(b)

\* the last call cut the connected set down to maxTotalNodes
Truncating ==
    /\ pc = "returned"
    /\ locals.path = "normal"
    /\ Len(locals.connectedNodeIds) > query.maxTotalNodes

Dropped == Range(locals.connectedNodeIds) \ locals.finalNodeIds

\* the degree the ranking mode of the query sorts by
RankDegree(id) ==
    IF query.nodeRankingMode = "subgraph" THEN rawDegree(locals.candidateLinks, id)
    ELSE Len(neighborsOf(adjacencyMap, id))

\* C16: when the connected set has more than maxTotalNodes ids, the kept
\* ids are its first maxTotalNodes ids by descending degree, ties in base
\* node order: no dropped id ranks before a kept id; in both ranking modes.
C16_TopByDegreeStable ==
    Truncating =>
        /\ locals.finalNodeIds \subseteq Range(locals.connectedNodeIds)
        /\ Cardinality(locals.finalNodeIds) = query.maxTotalNodes
        /\ Range(result.nodes) = locals.finalNodeIds
        /\ \A k \in locals.finalNodeIds, d \in Dropped : RanksBefore(k, d, RankDegree)

\* C16 happens: a kept and a dropped id have the same degree
C16_Witness ==
    /\ Truncating
    /\ query.nodeRankingMode = "subgraph"
    /\ \E k \in locals.finalNodeIds, d \in Dropped : RankDegree(k) = RankDegree(d)

\* the number of distinct ids at the other end of the base links of id
DistinctNeighbors(id) ==
    Cardinality({allLinks[i].target : i \in {j \in 1..Len(allLinks) : allLinks[j].source = id}}
                \cup
                {allLinks[i].source : i \in {j \in 1..Len(allLinks) : allLinks[j].target = id}})

\* the number of link ends of the base graph at id
LinkEnds(id) == rawDegree(allLinks, id)

\* C17 as stated: in global mode the ranking degree is the neighbor count in
\* the base graph, each distinct neighbor counted once, whatever the query.
C17_GlobalDegreeDistinctNeighbors ==
    (Truncating /\ query.nodeRankingMode = "global") =>
        \A k \in locals.finalNodeIds, d \in Dropped : RanksBefore(k, d, DistinctNeighbors)

\* C17 as amended: in global mode the ranking degree is the number of link
\* ends the base graph has at the node (parallel links count one each, a
\* self-loop counts two), whatever the query's filters and candidates.
C17_GlobalDegreeLinkEnds ==
    (Truncating /\ query.nodeRankingMode = "global") =>
        \A k \in locals.finalNodeIds, d \in Dropped : RanksBefore(k, d, LinkEnds)

\* C17 happens: under a query that filters node types and edge types, a kept
\* id outranks a dropped id by its link ends only (a self-loop)
C17_Witness ==
    /\ Truncating
    /\ query.nodeRankingMode = "global"
    /\ query.allowedEdgeTypes = {"cites_section"}
    /\ query.allowedNodeTypes = {"index"}
    /\ \E k \in locals.finalNodeIds, d \in Dropped : ~RanksBefore(k, d, DistinctNeighbors)

-----------------------------------------------------------------------------
(* Properties of the returned nodes and edges *)

\* the base links of an allowed type between returned nodes, in base order
InducedAllowedLinks ==
    SelectSeq(allLinks, LAMBDA l : /\ l.edge_type \in query.allowedEdgeTypes
                                   /\ l.source \in Range(result.nodes)
                                   /\ l.target \in Range(result.nodes))

\* C18: the returned edges are exactly the base edges whose edge_type is in
\* allowedEdgeTypes and whose end points are both returned, parallel edges
\* kept, in base edge order.
C18_InducedAllowedSubgraph ==
    pc = "returned" => result.links = InducedAllowedLinks

\* C19: in search mode, if a seed matched and no seed passes the node-type
\* and category filter, buildNetwork returns the empty result, even when
\* expansion reached other nodes.
C19_NoSeedPassesGivesEmptyResult ==
    (pc = "returned" /\ searchRequested(query)
        /\ locals.seedNodeIds # {} /\ locals.seedsAfterFilter = {}) =>
        result = EmptyResult

\* the ids base links name that are no base node
DanglingIds ==
    ({allLinks[i].source : i \in 1..Len(allLinks)}
        \cup {allLinks[i].target : i \in 1..Len(allLinks)}) \ NodeIds(allNodes)

\* C20: an id that a base edge names and no base node has is never a
\* returned node, is not counted in matchedCount and is the end point of no
\* returned edge.
C20_DanglingEdgesTolerated ==
    pc = "returned" =>
        /\ Range(result.nodes) \cap DanglingIds = {}
        /\ \A i \in 1..Len(result.links) :
              result.links[i].source \notin DanglingIds
              /\ result.links[i].target \notin DanglingIds
        /\ result.matchedCount <= Cardinality(locals.candidateNodeIds \ DanglingIds)

\* C20 happens: expansion followed a dangling edge, the missing id is in the
\* candidate id set, and the call returned nodes
C20_Witness ==
    /\ pc = "returned"
    /\ locals.candidateNodeIds \cap DanglingIds # {}
    /\ result.nodes # <<>>
    /\ result.links # <<>>

-----------------------------------------------------------------------------
(* Properties of matchedCount and of the connected set *)

\* the end points of the candidate links of the last call
CandidateLinkEnds ==
    {locals.candidateLinks[i].source : i \in 1..Len(locals.candidateLinks)}
    \cup {locals.candidateLinks[i].target : i \in 1..Len(locals.candidateLinks)}

\* the candidate nodes that are an end point of a candidate link
ConnectedCandidates ==
    (locals.candidateNodeIds \cap NodeIds(allNodes)) \cap CandidateLinkEnds

\* C22: for all queries matchedCount is at least the number of returned
\* nodes, and on the normal path matchedCount is the size of the connected
\* candidate set before the node cap is applied.
C22_MatchedCountIsConnectedSize ==
    pc = "returned" =>
        /\ result.matchedCount >= Len(result.nodes)
        /\ locals.path = "normal" =>
              result.matchedCount = Cardinality(ConnectedCandidates)

\* C22 happens: the cap cut the result below matchedCount, and a candidate
\* without a candidate link is not counted
C22_Witness ==
    /\ pc = "returned"
    /\ locals.path = "normal"
    /\ result.matchedCount > Len(result.nodes)
    /\ result.nodes # <<>>
    /\ Cardinality(locals.candidateNodeIds \cap NodeIds(allNodes)) > result.matchedCount

-----------------------------------------------------------------------------
(* Properties of the attribute filter *)

\* the answer of filterByAttributes of the revision that ran, for the
\* allow-lists of the last query
FilterByAttributesAnswer ==
    IF rev = "ts"
    THEN filterByAttributes_ts(allNodes, query.allowedNodeTypes, query.allowedCategories)
    ELSE filterByAttributes_p0(allNodes, query.allowedNodeTypes, query.allowedCategories)

\* the attribute filter predicate: type allowed, and category allowed unless
\* the type is category-agnostic
PassesAttributeFilter(node, types, cats) ==
    /\ node.node_type \in types
    /\ (node.node_type \in CategoryAgnosticTypes \/ node.category \in cats)

\* C23: a node passes the attribute filter iff its type is in
\* allowedNodeTypes and (its type is category-agnostic or its category is in
\* allowedCategories), and for every seed and every pair of allow-lists the
\* seed filter of buildNetwork and filterByAttributes give the same answer.
C23_FilterPredicatesAgree ==
    (pc \in {"returned", "repeated"} /\ searchRequested(query)
        /\ locals.path # "noMatch") =>
        \A id \in locals.seedNodeIds \cap NodeIds(allNodes) :
            /\ (id \in locals.seedsAfterFilter) <=> (id \in FilterByAttributesAnswer)
            /\ (id \in locals.seedsAfterFilter) <=>
                  PassesAttributeFilter(NodeOf(allNodes, id), query.allowedNodeTypes,
                                        query.allowedCategories)

-----------------------------------------------------------------------------
(* Properties of expandFromSeeds: what it reaches *)

\* the ids one hop from S over a base link of an allowed type, in either direction
OneHop(S, allowed) ==
    {allLinks[i].target : i \in {j \in 1..Len(allLinks) :
        allLinks[j].source \in S /\ allLinks[j].edge_type \in allowed}}
    \cup
    {allLinks[i].source : i \in {j \in 1..Len(allLinks) :
        allLinks[j].target \in S /\ allLinks[j].edge_type \in allowed}}

\* the ids joined to S by a path of at most k base links of an allowed type
RECURSIVE WithinHops(_, _, _)
WithinHops(S, k, allowed) ==
    IF k = 0 THEN S ELSE WithinHops(S \cup OneHop(S, allowed), k - 1, allowed)

\* the length of the longest adjacency list
LongestList ==
    CHOOSE n \in 0..(2 * Len(allLinks)) :
        /\ \A id \in DOMAIN adjacencyMap : Len(adjacencyMap[id]) <= n
        /\ (n = 0 \/ \E id \in DOMAIN adjacencyMap : Len(adjacencyMap[id]) = n)

\* C24: expandFromSeeds returns every seed; with depth 0 exactly the seeds;
\* every other returned id is joined to a seed by a path of at most depth
\* edges whose types are all in allowedEdgeTypes, in either direction; and
\* when the per-node cap is at least the longest adjacency list the result
\* is exactly the set of ids within depth such hops of a seed.
C24_BoundedBfs ==
    pc = "expanded" =>
        /\ xp.seedIds \subseteq xp.expanded
        /\ xp.depth = 0 => xp.expanded = xp.seedIds
        /\ xp.expanded \subseteq WithinHops(xp.seedIds, xp.depth, xp.allowedEdgeTypes)
        /\ xp.maxNeighborsPerNode >= LongestList =>
              xp.expanded = WithinHops(xp.seedIds, xp.depth, xp.allowedEdgeTypes)

-----------------------------------------------------------------------------
(* Properties of the removal of isolated nodes *)

\* id is an end point of a base link of an allowed type whose other end
\* point is a candidate node
IncidentToAllowedCandidateLink(id) ==
    LET candidates == locals.candidateNodeIds \cap NodeIds(allNodes)
    IN  \E i \in 1..Len(allLinks) :
            /\ allLinks[i].edge_type \in query.allowedEdgeTypes
            /\ \/ allLinks[i].source = id /\ allLinks[i].target \in candidates
               \/ allLinks[i].target = id /\ allLinks[i].source \in candidates

\* C25: unless allowedEdgeTypes is empty and expansionDepth is 0, the
\* connected set is exactly the candidates that are an end point of a
\* candidate edge, and every returned node is incident to a base edge of an
\* allowed type whose other end point was also a candidate.
C25_IsolatesRemoved ==
    (pc = "returned" /\ ~(query.allowedEdgeTypes = {} /\ query.expansionDepth = 0)) =>
        /\ locals.path = "normal" =>
              Range(locals.connectedNodeIds) = ConnectedCandidates
        /\ \A id \in Range(result.nodes) : IncidentToAllowedCandidateLink(id)

-----------------------------------------------------------------------------
(* Properties of the seed filter *)

\* the candidates as they are when the seed filter starts: what expansion
\* returned (networkBuilder.ts), what Step 1b left of it (part_000)
CandidatesBeforeSeedFilter ==
    IF rev = "ts" THEN locals.expandedIds
    ELSE filterExpanded_p0(allNodes, query, locals.seedNodeIds, locals.expandedIds)

\* the seeds the seed filter turned down
FailedSeeds == locals.seedNodeIds \ locals.seedsAfterFilter

\* C26: a seed that fails the attribute filter never appears in the result,
\* even if expansion reaches it from a seed that passed: after the seed
\* filter, candidates = candidates minus (seeds minus filteredSeeds).
C26_FailedSeedsRemoved ==
    (pc = "returned" /\ searchRequested(query) /\ locals.path # "noMatch") =>
        /\ locals.candidateNodeIds = CandidatesBeforeSeedFilter \ FailedSeeds
        /\ Range(result.nodes) \cap FailedSeeds = {}

\* C26 happens: a seed failed the filter, a base link joins it to a seed
\* that passed, expansion ran, and nodes were returned
C26_Witness ==
    /\ pc = "returned"
    /\ searchRequested(query)
    /\ query.expansionDepth > 0
    /\ FailedSeeds \cap OneHop(locals.seedsAfterFilter, query.allowedEdgeTypes) # {}
    /\ FailedSeeds \cap CandidatesBeforeSeedFilter # {}
    /\ result.nodes # <<>>

-----------------------------------------------------------------------------
(* Properties of expandFromSeeds: termination *)

\* the number of distinct ids in the adjacency map
IndexSize == Cardinality(DOMAIN adjacencyMap)

Smaller(a, b) == IF a < b THEN a ELSE b

\* one iteration of the for loop has run
LayerStep == pc = "expanding" /\ pc' = "expanding" /\ xp'.i = xp.i + 1

\* the layer just admitted holds no id visited before (no seed, no id of an
\* earlier layer), and an empty layer ends the loop
LayerStepAdmitsOnlyNew ==
    /\ xp'.nextLayer \cap xp.expanded = {}
    /\ xp'.expanded = xp.expanded \cup xp'.nextLayer
    /\ xp'.currentLayer = xp'.nextLayer
    /\ xp'.broke <=> (xp'.nextLayer = {})
    /\ ~xp.broke

\* C27 as stated: expandFromSeeds always terminates; no id is admitted to
\* more than one layer; the loop stops as soon as a layer admits no new id;
\* it runs at most min(depth, number of distinct ids in the index) layers.
C27_TerminatesWithinIndexSize ==
    /\ [][LayerStep => LayerStepAdmitsOnlyNew]_vars
    /\ [](pc \in {"expanding", "expanded"} => xp.i <= Smaller(xp.depth, IndexSize))
    /\ (pc = "expanding") ~> (pc = "expanded")

\* C27 as amended: the same, where the loop runs at most
\* min(depth, max(1, number of distinct ids in the index)) iterations, and
\* the layers that admit an id are at most min(depth, number of distinct
\* ids in the index); the one further iteration admits nothing and ends
\* the loop.
C27_TerminatesWithinAdmittingLayers ==
    /\ [][LayerStep => LayerStepAdmitsOnlyNew]_vars
    /\ [](pc \in {"expanding", "expanded"} =>
            /\ xp.i <= Smaller(xp.depth, IF IndexSize < 1 THEN 1 ELSE IndexSize)
            /\ (xp.i - (IF xp.broke THEN 1 ELSE 0)) <= Smaller(xp.depth, IndexSize)
            /\ (xp.i - (IF xp.broke THEN 1 ELSE 0)) <= Cardinality(xp.expanded \ xp.seedIds))
    /\ (pc = "expanding") ~> (pc = "expanded")

\* C27 happens: on a graph with a cycle, parallel links or a self-loop the
\* expansion admitted a layer, met only visited ids in the next one and
\* returned before its depth was used up
C27_Witness ==
    /\ pc = "expanded"
    /\ xp.broke
    /\ xp.i >= 2
    /\ xp.expanded # xp.seedIds
    /\ \E id \in xp.expanded \ xp.seedIds :
          \E k \in 1..Len(neighborsOf(adjacencyMap, id)) :
              neighborsOf(adjacencyMap, id)[k].neighborId \in xp.expanded

-----------------------------------------------------------------------------
(* Properties of the adjacency map *)

\* links that repeat, in file order: the same link twice, the same pair in
\* the other direction, the same pair with another type, a self-loop, a
\* link to an id that is no node
IndexLinkPool ==
    << Link("A", "B", "cites_section"),
       Link("A", "B", "cites_section"),
       Link("B", "A", "cites_section"),
       Link("A", "B", "belongs_to"),
       Link("D", "D", "cites_section"),
       Link("C", "X", "cites_section") >>

\* a builder over a list of such links
InitIndex == \E links \in SubSeqs(IndexLinkPool, MaxEdges) : Loaded(BaseNodes, links)

\* the constructor, then expandFromSeeds, which looks neighbors up
SpecIndex == InitIndex /\ [][NextExpand]_vars

\* the ids the base links name
LinkedIds ==
    {allLinks[i].source : i \in 1..Len(allLinks)}
    \cup {allLinks[i].target : i \in 1..Len(allLinks)}

\* how often the list of a holds the entry (b, t)
Entries(a, b, t) ==
    LET list == neighborsOf(adjacencyMap, a)
    IN  Cardinality({k \in 1..Len(list) :
                        list[k] = [neighborId |-> b, edgeType |-> t]})

\* how many base links join a and b with type t, in either direction
LinksJoining(a, b, t) ==
    Cardinality({i \in 1..Len(allLinks) :
        /\ allLinks[i].edge_type = t
        /\ \/ allLinks[i].source = a /\ allLinks[i].target = b
           \/ allLinks[i].source = b /\ allLinks[i].target = a})

RECURSIVE SumOfLengths(_)
SumOfLengths(ids) ==
    IF ids = {} THEN 0
    ELSE LET id == CHOOSE x \in ids : TRUE
         IN  Len(adjacencyMap[id]) + SumOfLengths(ids \ {id})

\* C28: every id that is the source or the target of a base edge has an
\* entry in the adjacency map; the map is symmetric (for a # b, b with type
\* t is in a's list as often as a with type t is in b's list); the lengths
\* of all lists sum to twice the number of base edges; and the lookup of an
\* id without edges gives an empty neighbor list.
C28_AdjacencyMapInvariant ==
    /\ DOMAIN adjacencyMap = LinkedIds
    /\ \A a \in LinkedIds, b \in LinkedIds, t \in EdgeTypes :
          a # b => /\ Entries(a, b, t) = Entries(b, a, t)
                   /\ Entries(a, b, t) = LinksJoining(a, b, t)
    /\ SumOfLengths(DOMAIN adjacencyMap) = 2 * Len(allLinks)
    /\ \A id \in NodeIds(allNodes) \ LinkedIds : neighborsOf(adjacencyMap, id) = <<>>
    /\ \A nodeId \in DOMAIN xp.offered :
          nodeId \notin LinkedIds => xp.offered[nodeId] = <<>>

\* C28 happens: two links of one type join the same two ids, and an
\* expansion looked up a frontier node without edges
C28_Witness ==
    /\ pc = "expanding"
    /\ xp.i >= 1
    /\ \E a \in LinkedIds, b \in LinkedIds, t \in EdgeTypes :
          a # b /\ Entries(a, b, t) >= 2
    /\ \E nodeId \in DOMAIN xp.offered : nodeId \notin LinkedIds

-----------------------------------------------------------------------------
(* Properties of a sequence of calls on one builder *)

\* the node objects of the snapshot as loadGraph made them
SnapshotNodes == loadGraphNodes(BaseNodes, allLinks)

\* the result of the first call on a builder constructed over the snapshot
FirstCallOnFreshBuilder(rv, q) ==
    IF rv = "ts"
    THEN buildNetwork_ts(SnapshotNodes, allLinks, buildAdjacencyMap(allLinks, EmptyMap), q)
    ELSE buildNetwork_p0(SnapshotNodes, allLinks, buildAdjacencyMap(allLinks, EmptyMap), q)

\* C29: for one builder and any sequence of buildNetwork calls, the result
\* of each call (node ids and their order, edges, truncated, matchedCount)
\* is the result the same query gives as the first call on a freshly
\* constructed builder over the same snapshot.
C29_HistoryIndependent ==
    pc \in {"returned", "repeated"} =>
        result = FirstCallOnFreshBuilder(rev, query).result

-----------------------------------------------------------------------------
(* api.ts: loadGraph and the functions that read cachedGraph, called by     *)
(* asynchronous callers; a caller gives up control at every await           *)

MaxCallers == 3

Callers == 1..MaxCallers

\* a caller that has issued its fetch
Fetching(kind) == [kind |-> kind, pc |-> "fetch", made |-> 0, saw |-> 0]

\* a caller that has read the graph object saw
Done(kind, made, saw) == [kind |-> kind, pc |-> "done", made |-> made, saw |-> saw]

CallerAt(c, at) == c \in DOMAIN api.callers /\ api.callers[c].pc = at

\* the callers of one session run one revision of the module
SameRevision(rv) == api.callers = EmptyMap \/ rev = rv

ApiStep(rv, newApi) ==
    /\ api' = newApi
    /\ rev' = rv
    /\ UNCHANGED <<allNodes, allLinks, adjacencyMap, pc, query, result, locals, xp, fl, sr,
                   previous, app>>

\* loadGraph up to its first await: fetch(...) is issued
fetchIssued(c, kind) ==
    [api EXCEPT !.fetches = @ + 1, !.callers = c :> Fetching(kind) @@ @]

\* api.ts fetchActorCounts, fetchRelationships, searchActors, ...:
\* if (!cachedGraph) { await loadGraph(); } ... cachedGraph.nodes
FetchActorCounts_ts(c) ==
    /\ c \notin DOMAIN api.callers
    /\ SameRevision("ts")
    /\ ApiStep("ts",
               IF api.cachedGraph = 0 THEN fetchIssued(c, "guarded")
               ELSE [api EXCEPT !.callers =
                        c :> Done("guarded", 0, api.cachedGraph) @@ @])

\* api.ts loadGraph called directly (App.tsx loadGraphData): it has no test
\* of cachedGraph
LoadGraph_ts(c) ==
    /\ c \notin DOMAIN api.callers
    /\ SameRevision("ts")
    /\ ApiStep("ts", fetchIssued(c, "direct"))

\* part_000 const graph = await loadGraph(), where loadGraph starts with
\* if (cachedGraph) return cachedGraph
LoadGraph_p0(c) ==
    /\ c \notin DOMAIN api.callers
    /\ SameRevision("p0")
    /\ ApiStep("p0",
               IF api.cachedGraph = 0 THEN fetchIssued(c, "direct")
               ELSE [api EXCEPT !.callers =
                        c :> Done("direct", 0, api.cachedGraph) @@ @])

\* await fetch(...) resumes with res.ok
FetchResponds(c) ==
    /\ CallerAt(c, "fetch")
    /\ ApiStep(rev, [api EXCEPT !.callers[c].pc = "json"])

\* await fetch(...) rejects, or !res.ok: loadGraph throws, cachedGraph is not written
FetchFails(c) ==
    /\ CallerAt(c, "fetch")
    /\ ApiStep(rev, [api EXCEPT !.callers[c].pc = "failed"])

\* await res.json() resumes: nodes and links are built, cachedGraph = { nodes, links }
JsonParsed(c) ==
    /\ CallerAt(c, "json")
    /\ ApiStep(rev, [api EXCEPT !.objects = @ + 1,
                                !.cachedGraph = api.objects + 1,
                                !.callers[c].pc = "loaded",
                                !.callers[c].made = api.objects + 1])

\* the caller's await loadGraph() resumes: a guarded caller reads the
\* variable cachedGraph, a direct caller the value loadGraph returned
CallerResumes(c) ==
    /\ CallerAt(c, "loaded")
    /\ ApiStep(rev, [api EXCEPT !.callers[c] =
                        Done(@.kind, @.made,
                             IF @.kind = "guarded" THEN api.cachedGraph ELSE @.made)])

NextLoad ==
    \E c \in Callers :
        \/ FetchActorCounts_ts(c)
        \/ LoadGraph_ts(c)
        \/ LoadGraph_p0(c)
        \/ FetchResponds(c)
        \/ FetchFails(c)
        \/ JsonParsed(c)
        \/ CallerResumes(c)

SpecLoad == Loaded(BaseNodes, <<>>) /\ [][NextLoad]_vars

\* C30: the graph file is fetched at most once per session: for any
\* interleaving of concurrent asynchronous callers of the api functions,
\* callers that start before the first load has completed included, the
\* fetch inside loadGraph is issued at most once and all callers end up
\* reading the same cachedGraph object.
C30_FetchedAtMostOnce ==
    /\ api.fetches <= 1
    /\ \A c \in DOMAIN api.callers, d \in DOMAIN api.callers :
          (api.callers[c].pc = "done" /\ api.callers[d].pc = "done") =>
              api.callers[c].saw = api.callers[d].saw

-----------------------------------------------------------------------------
(* App.tsx: the graph is loaded, and loaded again, while queries are issued *)

MaxLoads == 2

\* what the graph file holds at the time of a fetch: the scenario graph, or
\* a later graph with one more node and other links
ReloadSnapshots ==
    << [nodes |-> ScenarioNodes, links |-> ScenarioLinks],
       [nodes |-> BaseNodes,
        links |-> << Link("C", "D", "belongs_to"), Link("B", "A", "cites_section"),
                     Link("D", "D", "cites_section") >>] >>

\* new NetworkBuilder(nodes, links): the constructor runs to its end before
\* anything else does
constructed(nodes, links) ==
    [allNodes |-> nodes, allLinks |-> links,
     adjacencyMap |-> buildAdjacencyMap(links, EmptyMap)]

\* a new graph written into the builder in use, its index left as it was
publishedInPlace(current, pending) ==
    [allNodes |-> pending.allNodes, allLinks |-> pending.allLinks,
     adjacencyMap |-> current.adjacencyMap]

\* the render after setBuilder: handleBottomUpSearch is made anew over the
\* builder object that was set
published(current, pending) == pending

\* before the first load: useState<NetworkBuilder | null>(null)
InitReload ==
    /\ allNodes = <<>>
    /\ allLinks = <<>>
    /\ adjacencyMap = EmptyMap
    /\ pc = "idle"
    /\ rev = "ts"
    /\ query = NoQuery
    /\ result = EmptyResult
    /\ locals = NoLocals
    /\ xp = NoXp
    /\ fl = NoFl
    /\ sr = NoSr
    /\ previous = EmptyResult
    /\ api = NoApi
    /\ app = [ready |-> FALSE, started |-> 0, inFlight |-> 0, set |-> FALSE,
              pending |-> NoBuilder]

AppStep(newApp) ==
    /\ app' = newApp
    /\ UNCHANGED <<allNodes, allLinks, adjacencyMap, pc, rev, query, result, locals, xp, fl,
                   sr, previous, api>>

\* the effect that loads the graph starts: await apiModule.loadGraph()
LoadGraphData ==
    /\ app.started < MaxLoads
    /\ AppStep([app EXCEPT !.started = @ + 1, !.inFlight = @ + 1])

\* loadGraph resolves with the graph of the file as it is then:
\* setBuilder(new NetworkBuilder(data.nodes, data.links))
LoadGraphResolved ==
    /\ app.inFlight > 0
    /\ \E s \in 1..Len(ReloadSnapshots) :
          AppStep([app EXCEPT
                      !.inFlight = @ - 1,
                      !.set = TRUE,
                      !.pending =
                          constructed(loadGraphNodes(ReloadSnapshots[s].nodes,
                                                     ReloadSnapshots[s].links),
                                      ReloadSnapshots[s].links)])

\* loadGraph rejects: the catch block does not call setBuilder
LoadGraphFailed ==
    /\ app.inFlight > 0
    /\ AppStep([app EXCEPT !.inFlight = @ - 1])

\* React renders with the builder that was set last; no handler is running
Render ==
    /\ app.set
    /\ pc = "idle"
    /\ LET now == published([allNodes |-> allNodes, allLinks |-> allLinks,
                             adjacencyMap |-> adjacencyMap], app.pending)
       IN  /\ allNodes' = now.allNodes
           /\ allLinks' = now.allLinks
           /\ adjacencyMap' = now.adjacencyMap
    /\ app' = [app EXCEPT !.ready = TRUE, !.set = FALSE, !.pending = NoBuilder]
    /\ UNCHANGED <<pc, rev, query, result, locals, xp, fl, sr, previous, api>>

\* the queries handleBottomUpSearch builds: keywords and fields are not empty
ReloadQueries ==
    { Query(<< <<"a">> >>, <<"name">>, "OR", NodeTypes, e, Categories, d,
            AppMaxNodesPerExpansion, m, r) :
        e \in {{"cites_section"}, EdgeTypes}, d \in {0, 1}, m \in {1, 10},
        r \in {"global", "subgraph"} }

\* handleBottomUpSearch: if (!builder) return; builder.buildNetwork(...)
HandleBottomUpSearch_ts ==
    /\ pc = "idle"
    /\ app.ready
    /\ \E q \in ReloadQueries :
          Returned("ts", q, buildNetwork_ts(allNodes, allLinks, adjacencyMap, q))

\* the same handler over the class of part_000
HandleBottomUpSearch_p0 ==
    /\ pc = "idle"
    /\ app.ready
    /\ \E q \in ReloadQueries :
          Returned("p0", q, buildNetwork_p0(allNodes, allLinks, adjacencyMap, q))

NextReload ==
    \/ LoadGraphData
    \/ LoadGraphResolved
    \/ LoadGraphFailed
    \/ Render
    \/ HandleBottomUpSearch_ts
    \/ HandleBottomUpSearch_p0
    \/ Idle

SpecReload == InitReload /\ [][NextReload]_vars

\* the builder in use holds the nodes, the links and the index of snapshot s
BuilderOfSnapshot(s) ==
    /\ [i \in 1..Len(allNodes) |-> [allNodes[i] EXCEPT !.val = 0]] = ReloadSnapshots[s].nodes
    /\ allLinks = ReloadSnapshots[s].links
    /\ adjacencyMap = buildAdjacencyMap(ReloadSnapshots[s].links, EmptyMap)

\* the last call saw nodes, neighbors and links of snapshot s only
CallWithinSnapshot(s) ==
    LET links == ReloadSnapshots[s].links
        ends  == {links[i].source : i \in 1..Len(links)}
                 \cup {links[i].target : i \in 1..Len(links)}
    IN  /\ locals.seedNodeIds \subseteq NodeIds(ReloadSnapshots[s].nodes)
        /\ locals.expandedIds \subseteq locals.seedNodeIds \cup ends
        /\ Range(result.nodes) \subseteq NodeIds(ReloadSnapshots[s].nodes)
        /\ Range(result.links) \subseteq Range(links)
        /\ locals.expandedIds =
              expandedOf(rev, buildAdjacencyMap(links, EmptyMap), query, locals.seedNodeIds)

\* C21: when a graph is loaded again while queries are issued, every
\* buildNetwork call runs against one builder whose node list, edge list and
\* adjacency map come from the same snapshot; a query never sees the nodes of
\* one snapshot with the adjacency or the edges of another, or an index that
\* is built in part.
C21_OneSnapshotPerCall ==
    app.ready =>
        \E s \in 1..Len(ReloadSnapshots) :
            /\ BuilderOfSnapshot(s)
            /\ (pc = "returned" /\ locals.path # "noMatch") => CallWithinSnapshot(s)

\* C21 happens: a call returned nodes of the first snapshot while a builder
\* over the second one was set and not yet rendered, after the second load
C21_Witness ==
    /\ pc = "returned"
    /\ result.nodes # <<>>
    /\ app.started >= 2
    /\ app.set
    /\ BuilderOfSnapshot(1)
    /\ app.pending.allLinks = ReloadSnapshots[2].links

====
